---- MODULE Spec2Model ----
(***************************************************************************)
(* A model of the storefront service of app.py: the start-up check of the  *)
(* required settings, the three request handlers (home, buy, health) and   *)
(* the helpers they call (generate_sas_url, fetch_html_from_blob,          *)
(* fetch_products, enqueue_order).                                         *)
(*                                                                         *)
(* Text is a sequence of one-character strings (<<"a", "b">> is "ab"); a   *)
(* Python dict is a function whose DOMAIN is the set of its keys.  The     *)
(* object store and the queue are the two external services: the store is  *)
(* the content of product.json, the queue the sequence of messages it      *)
(* holds.  Whether an upstream call succeeds is chosen by the environment  *)
(* at every call.  A handler is one atomic action: it shares nothing with  *)
(* other requests but the queue, to which it appends at most once.  The    *)
(* last run's request, upstream outcomes, calls and response, and the      *)
(* queue as it found it, are kept so that the properties can read them.    *)
(***************************************************************************)
EXTENDS Integers, Sequences, FiniteSets, TLC

VARIABLES
    environ,   \* os.environ: the set of names that are set
    phase,     \* "starting" (module being imported), "failed", "serving"
    store,     \* product.json in the object store: [valid, items]
    queue,     \* the order queue: the sequence of message payloads
    found,     \* the queue as the last handler run found it
    request,   \* the request the last handler run served
    upstream,  \* what the environment made of that run's upstream calls
    response,  \* what that handler returned: [status, body]
    calls      \* the upstream calls that handler made, in order

vars ==
    <<environ, phase, store, queue, found, request, upstream, response, calls>>

-----------------------------------------------------------------------------
(* Bounds *)

MaxProducts == 2    \* records in product.json
MaxQueue == 2       \* messages the queue holds before the model stops sending
MaxLen == 2         \* characters of a generated query
MaxPathLen == 3     \* characters of a generated image path
MaxPriceLen == 3    \* characters of a generated price text

-----------------------------------------------------------------------------
(* Text *)

Last(s) == s[Len(s)]

\* every text over alphabet A of at most n characters
Texts(A, n) == UNION {[1..k -> A] : k \in 0..n}

\* every sequence over S of at most n elements
SeqsUpTo(S, n) == UNION {[1..k -> S] : k \in 0..n}

\* dict.get(key, default)
Get(d, key, default) == IF key \in DOMAIN d THEN d[key] ELSE default

-----------------------------------------------------------------------------
(* Start-up: the required settings *)

\* Variant: the list with the queue name left out.
required_env_without_queue ==
    { "STORAGE_ACCOUNT_NAME", "STORAGE_ACCOUNT_KEY", "BLOB_CONTAINER_HTML",
      "BLOB_CONTAINER_IMAGES", "BLOB_CONTAINER_PRODUCTS", "AzureWebJobsStorage" }

required_env ==
    { "STORAGE_ACCOUNT_NAME", "STORAGE_ACCOUNT_KEY", "BLOB_CONTAINER_HTML",
      "BLOB_CONTAINER_IMAGES", "BLOB_CONTAINER_PRODUCTS", "AzureWebJobsStorage",
      "ORDER_QUEUE" }

\* missing = [key for key in required_env if key not in os.environ]
missing == {key \in required_env : key \notin environ}

\* the values of the settings, read once at start-up
html_container == "${BLOB_CONTAINER_HTML}"
product_container == "${BLOB_CONTAINER_PRODUCTS}"
image_container == "${BLOB_CONTAINER_IMAGES}"
account_name == "${STORAGE_ACCOUNT_NAME}"
queue_name == "${ORDER_QUEUE}"

NoRequest == [route |-> "none"]
NoResponse == [status |-> 0, body |-> [text |-> ""]]

\* the module body: raise RuntimeError when a required setting is missing
Startup ==
    /\ phase = "starting"
    /\ phase' = IF missing # {} THEN "failed" ELSE "serving"
    /\ UNCHANGED <<environ, store, queue, found, request, upstream, response,
                   calls>>

-----------------------------------------------------------------------------
(* Python text operations used by the handlers *)

\* str.lower(), on the letters the model uses
LowerChar(c) ==
    CASE c = "A" -> "a"
      [] c = "B" -> "b"
      [] c = "S" -> "s"
      [] c = "H" -> "h"
      [] c = "T" -> "t"
      [] OTHER -> c

lower(s) == [i \in 1..Len(s) |-> LowerChar(s[i])]

Whitespace == {" "}

RECURSIVE lstrip(_)
lstrip(s) ==
    IF s # <<>> /\ Head(s) \in Whitespace THEN lstrip(Tail(s)) ELSE s

RECURSIVE rstrip(_)
rstrip(s) ==
    IF s # <<>> /\ Last(s) \in Whitespace
    THEN rstrip(SubSeq(s, 1, Len(s) - 1))
    ELSE s

\* str.strip()
strip(s) == rstrip(lstrip(s))

\* the Python test `q in s` on two texts
In(q, s) ==
    \E i \in 1..(Len(s) + 1) :
        /\ i + Len(q) - 1 <= Len(s)
        /\ SubSeq(s, i, i + Len(q) - 1) = q

\* s.split(sep): the pieces of s between the occurrences of the character sep
RECURSIVE split(_, _)
split(s, sep) ==
    IF s = <<>> THEN << <<>> >>
    ELSE LET rest == split(Tail(s), sep)
         IN  IF Head(s) = sep
             THEN << <<>> >> \o rest
             ELSE << <<Head(s)>> \o Head(rest) >> \o Tail(rest)

-----------------------------------------------------------------------------
(* Price normalisation: enqueue_order, lines 100-102 *)

AsciiDigits == {"0", "1", "2", "3", "4", "5", "6", "7", "8", "9"}

\* "U+0663" stands for the one character ARABIC-INDIC DIGIT THREE, a decimal
\* digit (category Nd) outside ASCII
OtherDigits == {"U+0663"}

\* what \d matches in a str pattern: every Unicode decimal digit
IsDigit(c) == c \in AsciiDigits \cup OtherDigits

\* the decimal value int() gives a digit character
DigitValue(c) ==
    CASE c = "0" -> 0 [] c = "1" -> 1 [] c = "2" -> 2 [] c = "3" -> 3
      [] c = "4" -> 4 [] c = "5" -> 5 [] c = "6" -> 6 [] c = "7" -> 7
      [] c = "8" -> 8 [] c = "9" -> 9 [] c = "U+0663" -> 3

DigitChar(d) ==
    CASE d = 0 -> "0" [] d = 1 -> "1" [] d = 2 -> "2" [] d = 3 -> "3"
      [] d = 4 -> "4" [] d = 5 -> "5" [] d = 6 -> "6" [] d = 7 -> "7"
      [] d = 8 -> "8" [] d = 9 -> "9"

\* str(n) of a non-negative integer
RECURSIVE NatToText(_)
NatToText(n) ==
    IF n < 10 THEN <<DigitChar(n)>>
    ELSE NatToText(n \div 10) \o <<DigitChar(n % 10)>>

\* A JSON value of the price field: a text, or an integer.
StrValue(s) == [type |-> "str", s |-> s, n |-> 0]
IntValue(n) == [type |-> "int", s |-> <<>>, n |-> n]

\* str(raw_price)
str(v) ==
    IF v.type = "int"
    THEN IF v.n < 0 THEN <<"-">> \o NatToText(-v.n) ELSE NatToText(v.n)
    ELSE v.s

\* Variant: only the first run of digits is kept, as re.search(r"\d+") would.
RECURSIVE first_digit_run(_)
first_digit_run(text) ==
    IF text = <<>> THEN <<>>
    ELSE IF ~IsDigit(Head(text)) THEN first_digit_run(Tail(text))
    ELSE LET rest == Tail(text)
         IN  IF rest = <<>> \/ ~IsDigit(Head(rest)) THEN <<Head(text)>>
             ELSE <<Head(text)>> \o first_digit_run(rest)

\* re.sub(r"[^\d]", "", text)
digits_only(text) == SelectSeq(text, IsDigit)

\* int(digits) of a non-empty text of digits
RECURSIVE int(_)
int(digits) ==
    IF Len(digits) = 1 THEN DigitValue(digits[1])
    ELSE int(SubSeq(digits, 1, Len(digits) - 1)) * 10 + DigitValue(Last(digits))

\* price_int
price_int(product) ==
    LET raw_price == Get(product, "price", StrValue(<<>>))
        digits == digits_only(str(raw_price))
    IN  IF digits # <<>> THEN int(digits) ELSE 0

-----------------------------------------------------------------------------
(* Helpers that call the object store and the queue *)

ExpiryHours == 24

\* The signed URL https://{account}.blob.core.windows.net/{container}/{blob}?{sas}
\* as the record of its parts.
generate_sas_url(container, blob_name) ==
    [ account |-> account_name, container |-> container, blob |-> blob_name,
      sas |-> [permission |-> "read", expiry_hours |-> ExpiryHours] ]

\* What an HTTP GET of a blob can come to: "ok", a response whose status
\* raise_for_status() rejects ("http_error"), or no response ("conn_error").
GetOutcomes == {"ok", "http_error", "conn_error"}

SendOutcomes == {"ok", "error"}

RenderOutcomes == {"ok", "error"}

GetError(outcome) ==
    IF outcome = "http_error" THEN "HTTPError" ELSE "ConnectionError"

product_json == <<"p", "r", "o", "d", "u", "c", "t", ".", "j", "s", "o", "n">>
home_html == <<"h", "o", "m", "e", ".", "h", "t", "m", "l">>
delivery_html == <<"d", "e", "l", "i", "v", "e", "r", "y", ".", "h", "t", "m", "l">>

GetCall(url, outcome) == [op |-> "GET", what |-> url, outcome |-> outcome]

\* fetch_html_from_blob(blob_name): [error, value, calls]
fetch_html_from_blob(blob_name, outcome) ==
    LET sas_url == generate_sas_url(html_container, blob_name)
    IN  [ error |-> IF outcome = "ok" THEN "" ELSE GetError(outcome),
          value |-> [template |-> blob_name],
          calls |-> <<GetCall(sas_url, outcome)>> ]

\* Variant: the first piece of the stored path is taken, not the last.
rewrite_image_first_piece(p) ==
    LET filename == Head(split(Get(p, "image_url", <<>>), "/"))
    IN  [k \in DOMAIN p \cup {"image_url"} |->
            IF k = "image_url"
            THEN generate_sas_url(image_container, filename)
            ELSE p[k]]

\* the loop of fetch_products: every record's image_url becomes a signed URL
\* of the last "/"-separated piece of the stored one
rewrite_image(p) ==
    LET filename == Last(split(Get(p, "image_url", <<>>), "/"))
    IN  [k \in DOMAIN p \cup {"image_url"} |->
            IF k = "image_url"
            THEN generate_sas_url(image_container, filename)
            ELSE p[k]]

\* fetch_products(): [error, value, calls]
fetch_products(outcome) ==
    LET sas_url == generate_sas_url(product_container, product_json)
    IN  [ error |-> IF outcome # "ok" THEN GetError(outcome)
                    ELSE IF ~store.valid THEN "JSONDecodeError"
                    ELSE "",
          value |-> [i \in 1..Len(store.items) |-> rewrite_image(store.items[i])],
          calls |-> <<GetCall(sas_url, outcome)>> ]

\* Variant: a failed send is tried once more, and the second try goes through.
enqueue_order_retrying(product, outcome) ==
    IF "name" \notin DOMAIN product
    THEN [error |-> "KeyError", calls |-> <<>>, queue |-> queue]
    ELSE LET msg_payload == [ id |-> product["id"], name |-> product["name"],
                              price |-> price_int(product) ]
             send(result) == [ op |-> "send_message",
                               what |-> [queue |-> queue_name, message |-> msg_payload],
                               outcome |-> result ]
         IN  [ error |-> "",
               calls |-> IF outcome = "ok" THEN <<send("ok")>>
                         ELSE <<send("error"), send("ok")>>,
               queue |-> Append(queue, msg_payload) ]

\* enqueue_order(product): [error, calls, queue]
enqueue_order(product, outcome) ==
    IF "name" \notin DOMAIN product
    THEN [error |-> "KeyError", calls |-> <<>>, queue |-> queue]
    ELSE LET msg_payload == [ id |-> product["id"], name |-> product["name"],
                              price |-> price_int(product) ]
             send == [ op |-> "send_message",
                       what |-> [queue |-> queue_name, message |-> msg_payload],
                       outcome |-> outcome ]
         IN  [ error |-> IF outcome = "ok" THEN "" ELSE "QueueSendError",
               calls |-> <<send>>,
               queue |-> IF outcome = "ok" THEN Append(queue, msg_payload)
                         ELSE queue ]

\* render_template_string(html, **context): [error, value]
render_template_string(html, context, outcome) ==
    [ error |-> IF outcome = "ok" THEN "" ELSE "TemplateError",
      value |-> [html |-> html, context |-> context] ]

-----------------------------------------------------------------------------
(* Handlers *)

\* what a handler run comes to
Result(status, body, made, q) ==
    [status |-> status, body |-> body, calls |-> made, queue |-> q]

\* Variant: the except clause returns the message without the status.
Error500_without_status(where, error, made, q) ==
    Result(200, [text |-> where, error |-> error], made, q)

\* the except clause of a handler
Error500(where, error, made, q) ==
    Result(500, [text |-> where, error |-> error], made, q)

\* Variant: the name and the category must both contain q.
RECURSIVE filter_products_both(_, _)
filter_products_both(products, q) ==
    IF products = <<>> THEN <<>>
    ELSE LET p == Head(products)
             keep == /\ In(q, lower(Get(p, "name", <<>>)))
                     /\ In(q, lower(Get(p, "category", <<>>)))
         IN  (IF keep THEN <<p>> ELSE <<>>)
                 \o filter_products_both(Tail(products), q)

\* [p for p in products if q in name.lower() or q in category.lower()]
RECURSIVE filter_products(_, _)
filter_products(products, q) ==
    IF products = <<>> THEN <<>>
    ELSE LET p == Head(products)
             keep == \/ In(q, lower(Get(p, "name", <<>>)))
                     \/ In(q, lower(Get(p, "category", <<>>)))
         IN  (IF keep THEN <<p>> ELSE <<>>) \o filter_products(Tail(products), q)

\* the body of home(): args is request.args, o the outcomes of the upstream calls
home_run(args, o) ==
    LET q == strip(lower(Get(args, "q", <<>>)))
        loaded == fetch_products(o.products)
        products == IF q # <<>> THEN filter_products(loaded.value, q)
                    ELSE loaded.value
        html == fetch_html_from_blob(home_html, o.html)
        page == render_template_string(html.value, [products |-> products], o.render)
    IN  IF loaded.error # ""
        THEN Error500("500 in home()", loaded.error, loaded.calls, queue)
        ELSE IF html.error # ""
        THEN Error500("500 in home()", html.error, loaded.calls \o html.calls, queue)
        ELSE IF page.error # ""
        THEN Error500("500 in home()", page.error, loaded.calls \o html.calls, queue)
        ELSE Result(200, page.value, loaded.calls \o html.calls, queue)

\* Variant: the lookup keeps the last record with the id, not the first.
RECURSIVE last_match(_, _)
last_match(products, product_id) ==
    IF products = <<>> THEN <<>>
    ELSE IF Last(products)["id"] = product_id THEN <<Last(products)>>
    ELSE last_match(SubSeq(products, 1, Len(products) - 1), product_id)

\* Variant: the lookup compares with <= where the code compares with ==.
RECURSIVE first_match_le(_, _)
first_match_le(products, product_id) ==
    IF products = <<>> THEN <<>>
    ELSE IF Head(products)["id"] <= product_id THEN <<Head(products)>>
    ELSE first_match_le(Tail(products), product_id)

\* next((p for p in products if p["id"] == product_id), None); <<>> is None
RECURSIVE first_match(_, _)
first_match(products, product_id) ==
    IF products = <<>> THEN <<>>
    ELSE IF Head(products)["id"] = product_id THEN <<Head(products)>>
    ELSE first_match(Tail(products), product_id)

\* Variant: the confirmation template is fetched and rendered before the order
\* is sent.
buy_run_template_first(product_id, o) ==
    LET loaded == fetch_products(o.products)
        match == first_match(loaded.value, product_id)
        product == match[1]
        html == fetch_html_from_blob(delivery_html, o.html)
        page == render_template_string(html.value, [product |-> product], o.render)
        sent == enqueue_order(product, o.send)
    IN  IF loaded.error # ""
        THEN Error500("500 in /buy", loaded.error, loaded.calls, queue)
        ELSE IF match = <<>>
        THEN Result(404, [text |-> "Product not found"], loaded.calls, queue)
        ELSE IF html.error # ""
        THEN Error500("500 in /buy", html.error, loaded.calls \o html.calls, queue)
        ELSE IF page.error # ""
        THEN Error500("500 in /buy", page.error, loaded.calls \o html.calls, queue)
        ELSE IF sent.error # ""
        THEN Error500("500 in /buy", sent.error,
                      loaded.calls \o html.calls \o sent.calls, sent.queue)
        ELSE Result(200, page.value,
                    loaded.calls \o html.calls \o sent.calls, sent.queue)

\* the body of buy(product_id)
buy_run(product_id, o) ==
    LET loaded == fetch_products(o.products)
        match == first_match(loaded.value, product_id)
        product == match[1]
        sent == enqueue_order(product, o.send)
        html == fetch_html_from_blob(delivery_html, o.html)
        page == render_template_string(html.value, [product |-> product], o.render)
    IN  IF loaded.error # ""
        THEN Error500("500 in /buy", loaded.error, loaded.calls, queue)
        ELSE IF match = <<>>
        THEN Result(404, [text |-> "Product not found"], loaded.calls, queue)
        ELSE IF sent.error # ""
        THEN Error500("500 in /buy", sent.error, loaded.calls \o sent.calls, sent.queue)
        ELSE IF html.error # ""
        THEN Error500("500 in /buy", html.error,
                      loaded.calls \o sent.calls \o html.calls, sent.queue)
        ELSE IF page.error # ""
        THEN Error500("500 in /buy", page.error,
                      loaded.calls \o sent.calls \o html.calls, sent.queue)
        ELSE Result(200, page.value,
                    loaded.calls \o sent.calls \o html.calls, sent.queue)

AllOk == [products |-> "ok", send |-> "ok", html |-> "ok", render |-> "ok"]

\* The environment's part in one handler run: the outcome of each upstream call
\* and of the rendering.  A run stops at its first failure, so the outcomes
\* after a failing one are never consulted and are left "ok".
Outcomes ==
    { o \in [ products : GetOutcomes, send : SendOutcomes, html : GetOutcomes,
              render : RenderOutcomes ] :
        /\ o.products # "ok" => o.send = "ok" /\ o.html = "ok" /\ o.render = "ok"
        /\ o.send # "ok" => o.html = "ok" /\ o.render = "ok"
        /\ o.html # "ok" => o.render = "ok" }

\* the catalog handler sends nothing
HomeOutcomes == {o \in Outcomes : o.send = "ok"}

Respond(req, o, r) ==
    /\ request' = req
    /\ upstream' = o
    /\ response' = [status |-> r.status, body |-> r.body]
    /\ calls' = r.calls
    /\ found' = queue
    /\ queue' = r.queue
    /\ UNCHANGED <<environ, phase, store>>

\* GET /?q=...
home(args, outcomes) ==
    /\ phase = "serving"
    /\ \E o \in outcomes :
           Respond([route |-> "home", args |-> args], o, home_run(args, o))

\* GET /buy/<int:product_id>
buy(product_id, outcomes) ==
    /\ phase = "serving"
    /\ \E o \in outcomes :
           /\ Len(buy_run(product_id, o).queue) <= MaxQueue
           /\ Respond([route |-> "buy", product_id |-> product_id], o,
                      buy_run(product_id, o))

\* Variant: a health handler that first fetches product.json.
health_probing_store ==
    /\ phase = "serving"
    /\ \E outcome \in GetOutcomes :
           LET loaded == fetch_products(outcome)
           IN  Respond([route |-> "health"], AllOk,
                       IF loaded.error # ""
                       THEN Error500("500 in health()", loaded.error,
                                     loaded.calls, queue)
                       ELSE Result(200, [text |-> "OK"], loaded.calls, queue))

\* GET /health
health ==
    /\ phase = "serving"
    /\ Respond([route |-> "health"], AllOk,
               Result(200, [text |-> "OK"], <<>>, queue))

-----------------------------------------------------------------------------
(* The catalogs and requests the model runs *)

Shirt ==
    [ id |-> 1, name |-> <<"S", "h">>, category |-> <<"T">>,
      price |-> StrValue(<<"$", "1", "2", ".", "0", "0">>),
      image_url |-> <<"i", "/", "s">> ]

\* the id of Shirt again; a numeric price, no category, no image_url
Shawl == [id |-> 1, name |-> <<"S", "h", "a">>, price |-> IntValue(12)]

\* no name, no price
Nameless == [id |-> 2, category |-> <<"H">>, image_url |-> <<>>]

Products == {Shirt, Shawl, Nameless}

Stores ==
    {[valid |-> TRUE, items |-> c] : c \in SeqsUpTo(Products, MaxProducts)}
        \cup {[valid |-> FALSE, items |-> <<>>]}

ProductIds == {1, 2, 3}

\* request.args: no q, or a q
Args(Qs) == {<<>>} \cup {[k \in {"q"} |-> q] : q \in Qs}

Queries == {<<" ">>, <<" ", "S", "H">>, <<"t">>}

Init ==
    /\ environ \in SUBSET required_env
    /\ phase = "starting"
    /\ store \in Stores
    /\ queue = <<>>
    /\ found = <<>>
    /\ request = NoRequest
    /\ upstream = AllOk
    /\ response = NoResponse
    /\ calls = <<>>

Next ==
    \/ Startup
    \/ health
    \/ \E args \in Args(Queries) : home(args, HomeOutcomes)
    \/ \E product_id \in ProductIds : buy(product_id, Outcomes)

Spec == Init /\ [][Next]_vars

-----------------------------------------------------------------------------
(* The helpers on their own: a configured service, one catalog, and the     *)
(* first request the service serves.                                        *)

InitWith(stores) ==
    /\ environ = required_env
    /\ phase = "starting"
    /\ store \in stores
    /\ queue = <<>>
    /\ found = <<>>
    /\ request = NoRequest
    /\ upstream = AllOk
    /\ response = NoResponse
    /\ calls = <<>>

\* Prices: every text of at most MaxPriceLen of these characters, the texts of
\* the examples, some integers, and no price field.
PriceChars == {"0", "1", "2", "$", ".", "a", "U+0663"}

PriceValues ==
    {StrValue(t) : t \in Texts(PriceChars, MaxPriceLen)}
        \cup {StrValue(<<"$", "1", "2", ".", "0", "0">>), StrValue(<<"a", "b", "c">>)}
        \cup {IntValue(n) : n \in {-7, 0, 5, 12, 120, 1005}}

PricedProducts ==
    {[id |-> 1, name |-> <<"n">>, price |-> v] : v \in PriceValues}
        \cup {[id |-> 1, name |-> <<"n">>]}

PriceStores == {[valid |-> TRUE, items |-> <<p>>] : p \in PricedProducts}

\* the service has served no request yet
Fresh == request = NoRequest

InitPrice == InitWith(PriceStores)

NextPrice ==
    \/ Startup
    \/ Fresh /\ buy(1, {o \in Outcomes : o.products = "ok"})

SpecPrice == InitPrice /\ [][NextPrice]_vars

\* Names and categories for the filter, present or not, in both cases of letter.
FilterProducts ==
    LET names == {<<"a">>, <<"A", "b">>, <<"b", "a", "B">>, <<"b", " ", "a">>}
        categories == {<<"B">>, <<"a", "b">>}
    IN  {[id |-> 1, name |-> n, category |-> c] : n \in names, c \in categories}
            \cup {[id |-> 1, name |-> n] : n \in names}
            \cup {[id |-> 1, category |-> c] : c \in categories}
            \cup {[id |-> 1]}

FilterStores ==
    {[valid |-> TRUE, items |-> c] : c \in SeqsUpTo(FilterProducts, MaxProducts)}

FilterQueries == Texts({"a", "A", "b", " "}, MaxLen)

InitFilter == InitWith(FilterStores)

NextFilter ==
    \/ Startup
    \/ Fresh /\ \E args \in Args(FilterQueries) : home(args, {AllOk})

SpecFilter == InitFilter /\ [][NextFilter]_vars

\* Stored image paths: every text of at most MaxPathLen of these characters, and
\* no image_url field.
ImageProducts ==
    {[id |-> 1, name |-> <<"n">>, image_url |-> t] : t \in Texts({"a", "/"}, MaxPathLen)}
        \cup {[id |-> 1, name |-> <<"n">>]}

ImageStores ==
    {[valid |-> TRUE, items |-> c] : c \in SeqsUpTo(ImageProducts, MaxProducts)}

InitCatalog == InitWith(ImageStores)

NextCatalog ==
    \/ Startup
    \/ Fresh /\ home(<<>>, HomeOutcomes)

SpecCatalog == InitCatalog /\ [][NextCatalog]_vars

-----------------------------------------------------------------------------
(* What the properties below read off a state: the request served last, the *)
(* catalog it met, and what the environment did to its upstream calls.      *)

IsHome == request.route = "home"
IsBuy == request.route = "buy"

\* the catalog load succeeded: the blob was served and parsed
LoadOk == upstream.products = "ok" /\ store.valid

\* the places of product.json whose record has the requested id
Matches == {i \in 1..Len(store.items) : store.items[i]["id"] = request.product_id}

\* the first of them in source order
Chosen == store.items[CHOOSE i \in Matches : \A j \in Matches : i <= j]

SendCalls == SelectSeq(calls, LAMBDA c : c.op = "send_message")

TemplateGets(blob_name) ==
    SelectSeq(calls, LAMBDA c : c.op = "GET" /\ c.what.container = html_container
                                             /\ c.what.blob = blob_name)

ProductsGet == GetCall(generate_sas_url(product_container, product_json), "ok")

\* the requested id is in the loaded catalog and the record can be ordered
Orderable == IsBuy /\ LoadOk /\ Matches # {} /\ "name" \in DOMAIN Chosen

-----------------------------------------------------------------------------
(* C6 *)

SevenSettings ==
    { "STORAGE_ACCOUNT_NAME", "STORAGE_ACCOUNT_KEY", "BLOB_CONTAINER_HTML",
      "BLOB_CONTAINER_PRODUCTS", "BLOB_CONTAINER_IMAGES", "AzureWebJobsStorage",
      "ORDER_QUEUE" }

\* C6: when one of the seven required settings is absent, start-up ends in
\* failure, the service is never serving, and no handler has run: there is no
\* request served, no response, no upstream call and no queue message.
C6_MissingSettingNeverServes ==
    SevenSettings \ environ # {} =>
        /\ phase \in {"starting", "failed"}
        /\ request = NoRequest /\ response = NoResponse
        /\ calls = <<>> /\ queue = <<>>

\* start-up has failed with exactly one setting absent
C6_Witness == phase = "failed" /\ Cardinality(SevenSettings \ environ) = 1

-----------------------------------------------------------------------------
(* C5 *)

\* C5: a health request is answered 200 "OK" whatever the store holds and the
\* queue holds, makes no upstream call, and leaves the queue as it was.
C5_HealthAlwaysOk ==
    request.route = "health" =>
        /\ response = [status |-> 200, body |-> [text |-> "OK"]]
        /\ calls = <<>>
        /\ queue = found

\* a health request answered while product.json is malformed
C5_Witness ==
    request.route = "health" /\ ~store.valid /\ response.status = 200


-----------------------------------------------------------------------------
(* C1 *)

C1_Case == IsBuy /\ LoadOk /\ Matches = {}

\* C1: a purchase request whose catalog load succeeds and whose id is the id
\* of no record is answered 404, its only upstream call is the catalog fetch
\* (no queue send, no template fetch), and the queue is left as it was.
C1_UnknownIdIs404 ==
    C1_Case =>
        /\ response = [status |-> 404, body |-> [text |-> "Product not found"]]
        /\ calls = <<ProductsGet>>
        /\ queue = found

\* an unknown id asked of a non-empty catalog, with an order already queued
C1_Witness ==
    C1_Case /\ store.items # <<>> /\ found # <<>> /\ response.status = 404

-----------------------------------------------------------------------------
(* C9 *)

\* the order submission reached the queue client and the send failed
C9_Case == upstream.send = "error" /\ Orderable

\* C9: when the send of a purchase request fails, the request has made exactly
\* one send attempt and no fetch of the confirmation template, it ends 500
\* with the send error, and the queue is left as it was.
C9_SendFailureNotRetried ==
    C9_Case =>
        /\ Len(SendCalls) = 1
        /\ SendCalls[1].outcome = "error"
        /\ TemplateGets(delivery_html) = <<>>
        /\ response.status = 500
        /\ response.body.error = "QueueSendError"
        /\ queue = found

\* a failed send after an earlier order was queued
C9_Witness == C9_Case /\ found # <<>> /\ response.status = 500

-----------------------------------------------------------------------------
(* Price normalisation as the claims state it *)

\* the string form of the price field; no field, no characters
PriceText(product) ==
    IF "price" \in DOMAIN product THEN str(product["price"]) ELSE <<>>

RECURSIVE Pow10(_)
Pow10(k) == IF k = 0 THEN 1 ELSE 10 * Pow10(k - 1)

\* the sum, over the places i of `rest`, of the value of t[i] times ten to
\* the number of places of `at` after i
RECURSIVE PlaceSum(_, _, _)
PlaceSum(t, at, rest) ==
    IF rest = {} THEN 0
    ELSE LET i == CHOOSE k \in rest : TRUE
         IN  DigitValue(t[i]) * Pow10(Cardinality({j \in at : j > i}))
                 + PlaceSum(t, at, rest \ {i})

\* The number read off the characters of t that are in Digits, the others
\* skipped: each such character counts its value times ten to the number of
\* such characters after it.  No such character: 0.
Reading(t, Digits) ==
    LET at == {i \in 1..Len(t) : t[i] \in Digits}
    IN  PlaceSum(t, at, at)

\* with the decimal digits of Unicode
DecimalPrice(product) == Reading(PriceText(product), AsciiDigits \cup OtherDigits)

\* with the ASCII digits only
AsciiPrice(product) == Reading(PriceText(product), AsciiDigits)

\* the order message of the chosen record
ExpectedMessage ==
    [id |-> Chosen["id"], name |-> Chosen["name"], price |-> DecimalPrice(Chosen)]

ExpectedSend ==
    [ op |-> "send_message",
      what |-> [queue |-> queue_name, message |-> ExpectedMessage],
      outcome |-> "ok" ]

-----------------------------------------------------------------------------
(* C10 *)

\* the order was sent and then the template fetch or the rendering failed
C10_Case ==
    /\ upstream.send = "ok" /\ (upstream.html # "ok" \/ upstream.render # "ok")
    /\ Orderable

\* C10: in a purchase request the order is sent before the confirmation
\* template is fetched; when the send succeeds and the template fetch or the
\* rendering then fails, the request ends 500 and exactly one order message of
\* it, the chosen record's, has been appended to the queue.
C10_FailureAfterEnqueue ==
    C10_Case =>
        /\ response.status = 500
        /\ calls = << ProductsGet, ExpectedSend,
                      GetCall(generate_sas_url(html_container, delivery_html),
                              upstream.html) >>
        /\ queue = Append(found, ExpectedMessage)

\* a 500 answer whose order is the last message of the queue
C10_Witness ==
    /\ C10_Case /\ response.status = 500
    /\ found # <<>> /\ Len(queue) = Len(found) + 1

-----------------------------------------------------------------------------
(* C8 *)

\* a step of the last run of the catalog or the purchase handler failed: the
\* catalog fetch, the parsing of product.json, the order submission, the
\* template fetch or the rendering
C8_Failed ==
    \/ (IsHome \/ IsBuy) /\ ~LoadOk
    \/ IsHome /\ LoadOk /\ (upstream.html # "ok" \/ upstream.render # "ok")
    \/ IsBuy /\ LoadOk /\ Matches # {}
             /\ \/ "name" \notin DOMAIN Chosen
                \/ upstream.send # "ok"
                \/ upstream.html # "ok"
                \/ upstream.render # "ok"

\* the error of the first step that failed
C8_Error ==
    CASE upstream.products = "http_error" -> "HTTPError"
      [] upstream.products = "conn_error" -> "ConnectionError"
      [] upstream.products = "ok" /\ ~store.valid -> "JSONDecodeError"
      [] OTHER ->
           IF IsBuy /\ "name" \notin DOMAIN Chosen THEN "KeyError"
           ELSE IF IsBuy /\ upstream.send # "ok" THEN "QueueSendError"
           ELSE IF upstream.html = "http_error" THEN "HTTPError"
           ELSE IF upstream.html = "conn_error" THEN "ConnectionError"
           ELSE "TemplateError"

\* C8: in the catalog handler and the purchase handler, when a step fails the
\* request ends with status 500 (never 200, never 404) and a body that carries
\* the handler's prefix and the message of the error that was raised.
C8_FailureIs500 ==
    C8_Failed =>
        response = [ status |-> 500,
                     body |-> [ text |-> IF IsHome THEN "500 in home()"
                                         ELSE "500 in /buy",
                                error |-> C8_Error ] ]

\* a purchase whose order was sent and whose template fetch then got no
\* response
C8_Witness ==
    /\ C8_Failed /\ response.status = 500
    /\ IsBuy /\ LoadOk /\ upstream.send = "ok" /\ upstream.html = "conn_error"

-----------------------------------------------------------------------------
(* C2 *)

\* the id is in the loaded catalog, and the submission of the order, the fetch
\* of the template and its rendering all succeed
C2_Case == upstream = AllOk /\ Orderable

\* status 200 with the confirmation template rendered for the first record
\* with the id, after exactly one send, of that record's id, name and
\* normalised price
C2_Outcome ==
    /\ response =
         [ status |-> 200,
           body |-> [ html |-> [template |-> delivery_html],
                      context |-> [product |-> rewrite_image(Chosen)] ] ]
    /\ calls = << ProductsGet, ExpectedSend,
                  GetCall(generate_sas_url(html_container, delivery_html), "ok") >>
    /\ queue = Append(found, ExpectedMessage)

-----------------------------------------------------------------------------
(* C3 *)

\* the price the last run put in its order message
SentPrice == SendCalls[1].what.message.price

C3_Case == Orderable /\ SendCalls # <<>>

\* C3, as amended: the normalised price is the number read off the decimal
\* digits of the string form of the price, every other character skipped,
\* where a decimal digit is an ASCII digit or another Unicode decimal digit,
\* read at its digit value; it is 0 when there is no digit or no price field
\* ("$12.00" gives 1200, "" gives 0, "12" gives 12, "abc" gives 0).
C3_PriceIsDecimalReading ==
    C3_Case =>
        /\ SentPrice = DecimalPrice(Chosen)
        /\ PriceText(Chosen) = <<"$", "1", "2", ".", "0", "0">> => SentPrice = 1200
        /\ PriceText(Chosen) = <<>> => SentPrice = 0
        /\ PriceText(Chosen) = <<"1", "2">> => SentPrice = 12
        /\ PriceText(Chosen) = <<"a", "b", "c">> => SentPrice = 0

\* an order for a price text with a digit outside ASCII among other characters
C3_Witness ==
    /\ C3_Case
    /\ \E i, j \in 1..Len(PriceText(Chosen)) :
          /\ PriceText(Chosen)[i] \in OtherDigits
          /\ ~IsDigit(PriceText(Chosen)[j])
    /\ SentPrice > 0

\* C3, as first stated: every character that is not an ASCII digit is
\* discarded.
C3_Original == C3_Case => SentPrice = AsciiPrice(Chosen)

-----------------------------------------------------------------------------
(* C4 *)

UpperChar(c) ==
    CASE c = "a" -> "A"
      [] c = "b" -> "B"
      [] c = "s" -> "S"
      [] c = "h" -> "H"
      [] c = "t" -> "T"
      [] OTHER -> c

\* q occurs in text, letters compared without regard to case
ContainsCI(text, q) ==
    \E k \in 0..Len(text) :
        /\ k + Len(q) <= Len(text)
        /\ \A j \in 1..Len(q) : UpperChar(text[k + j]) = UpperChar(q[j])

\* t without the whitespace at its two ends
Trimmed(t) ==
    LET ink == {i \in 1..Len(t) : t[i] \notin Whitespace}
    IN  IF ink = {} THEN <<>>
        ELSE SubSeq(t, CHOOSE i \in ink : \A j \in ink : i <= j,
                       CHOOSE i \in ink : \A j \in ink : j <= i)

\* the query of the last request, trimmed; no q is the empty query
Query == Trimmed(IF "q" \in DOMAIN request.args THEN request.args["q"] ELSE <<>>)

\* the catalog as loaded
Loaded == [i \in 1..Len(store.items) |-> rewrite_image(store.items[i])]

FieldText(p, key) == IF key \in DOMAIN p THEN p[key] ELSE <<>>

Selected(p) ==
    \/ ContainsCI(FieldText(p, "name"), Query)
    \/ ContainsCI(FieldText(p, "category"), Query)

HomeStepsOk ==
    IsHome /\ LoadOk /\ upstream.html = "ok" /\ upstream.render = "ok"

\* C4: the catalog page is rendered with, for a query that is non-empty once
\* trimmed, exactly the records whose name or category contains the query
\* without regard to case, and for no query, an empty one or one of whitespace
\* only, the whole catalog; in source order in both cases.
C4_FilterIsSubsequence ==
    HomeStepsOk =>
        response =
          [ status |-> 200,
            body |-> [ html |-> [template |-> home_html],
                       context |-> [ products |->
                           IF Query = <<>> THEN Loaded
                           ELSE SelectSeq(Loaded, Selected) ] ] ]

\* a query with a capital and a space around it that keeps the second of two
\* records only
C4_Witness ==
    /\ HomeStepsOk /\ response.status = 200
    /\ "q" \in DOMAIN request.args
    /\ request.args["q"] # Query /\ lower(Query) # Query
    /\ Len(store.items) = MaxProducts
    /\ response.body.context.products = <<Loaded[MaxProducts]>>

-----------------------------------------------------------------------------
(* C7 *)

\* the part of a stored path after its last "/"
LastSegment(t) ==
    LET slashes == {i \in 1..Len(t) : t[i] = "/"}
        cut == IF slashes = {} THEN 0
               ELSE CHOOSE i \in slashes : \A j \in slashes : j <= i
    IN  SubSeq(t, cut + 1, Len(t))

\* a read-only signed URL of a blob of the image container
SignedImageUrl(filename) ==
    [ account |-> "${STORAGE_ACCOUNT_NAME}", container |-> "${BLOB_CONTAINER_IMAGES}",
      blob |-> filename, sas |-> [permission |-> "read", expiry_hours |-> 24] ]

Rendered == response.body.context.products

\* C7: when the catalog load succeeds, every record comes out, in place, with
\* as image_url the signed URL on the image container of the last path
\* segment of the stored image_url; a record with no image_url or an empty
\* one does not fail the load and gets the signed URL of the empty filename.
C7_ImageUrlsAreSigned ==
    HomeStepsOk =>
        /\ response.status = 200
        /\ Len(Rendered) = Len(store.items)
        /\ \A i \in 1..Len(store.items) :
              /\ Rendered[i]["image_url"] =
                    SignedImageUrl(LastSegment(FieldText(store.items[i], "image_url")))
              /\ FieldText(store.items[i], "image_url") = <<>> =>
                    Rendered[i]["image_url"] = SignedImageUrl(<<>>)

\* a catalog with a record without image_url and a record whose path has a
\* directory and a file name
C7_Witness ==
    /\ HomeStepsOk /\ response.status = 200
    /\ \E i, j \in 1..Len(store.items) :
          /\ "image_url" \notin DOMAIN store.items[i]
          /\ "image_url" \in DOMAIN store.items[j]
          /\ store.items[j]["image_url"] = <<"a", "/", "a">>
          /\ Rendered[j]["image_url"].blob = <<"a">>

====
